---- MODULE Spec2Model ----
(***************************************************************************)
(* A model of the task tracker of src/cli.py: the Task entity and its JSON *)
(* conversion, the file-backed TaskStore and the TaskManager built on it.  *)
(*                                                                         *)
(* The backing file is modelled by its content.  A datetime is a number of *)
(* clock ticks, its ISO-8601 text a tagged value that fromisoformat has to *)
(* parse, and a JSON object a record that carries the set of keys present. *)
(* Every operation is one atomic action (the program is single-threaded),  *)
(* written as a function from the file content and the arguments to the    *)
(* result and the new file content.                                        *)
(***************************************************************************)
EXTENDS Integers, Sequences, FiniteSets, TLC

\* ------------------------------------------------------------------------
\* Bounds
\* ------------------------------------------------------------------------
\* largest number of records the persisted sequence may grow to
MaxTasks == 2
\* largest value of the clock
MaxClock == 1

\* ------------------------------------------------------------------------
\* Inputs
\* ------------------------------------------------------------------------
Descriptions == {"a", "b"}

TaskStatus == {"todo", "in-progress", "done"}

\* the "status is None" argument of list_tasks
NoFilter == "None"

\* ids a caller may pass: in range, past the end, zero and negative
Ids == (0 - MaxTasks) .. (MaxTasks + 1)

\* the ids the calls of the state machine pass
CallIds == 0 .. (MaxTasks + 1)

\* the same ids and one below every negative index of the list
NotFoundIds == {0 - (MaxTasks + 1)} \cup CallIds

FieldNames == {"id", "description", "status", "createdAt", "updatedAt", "isDeleted"}

\* ------------------------------------------------------------------------
\* Python list primitives
\* ------------------------------------------------------------------------
\* position (1-based) that the Python index i names in a list of length n,
\* 0 when the index raises IndexError; negative indices count from the end
py_index(n, i) ==
    IF 0 <= i /\ i < n THEN i + 1
    ELSE IF i < 0 /\ 0 - n <= i THEN n + i + 1
    ELSE 0

\* list.insert(i, x): the index is clamped to the ends of the list
list_insert(s, i, x) ==
    LET n == Len(s)
        j == IF i < 0 THEN (IF n + i < 0 THEN 0 ELSE n + i)
             ELSE (IF i > n THEN n ELSE i)
    IN  SubSeq(s, 1, j) \o <<x>> \o SubSeq(s, j + 1, n)

\* ------------------------------------------------------------------------
\* Task and its JSON conversion
\* ------------------------------------------------------------------------
Task(id, description, status, createdAt, updatedAt, isDeleted) ==
    [id |-> id, description |-> description, status |-> status,
     createdAt |-> createdAt, updatedAt |-> updatedAt, isDeleted |-> isDeleted]

\* datetime.isoformat(): the text of a datetime
isoformat(t) == [valid |-> TRUE, ticks |-> t]

\* a string that is not ISO-8601
BadIso == [valid |-> FALSE, ticks |-> 0]

\* datetime.fromisoformat(s), defined when s.valid (ValueError otherwise)
fromisoformat(s) == s.ticks

to_dict(task) ==
    [isDict |-> TRUE, keys |-> FieldNames,
     id |-> task.id, description |-> task.description, status |-> task.status,
     createdAt |-> isoformat(task.createdAt),
     updatedAt |-> isoformat(task.updatedAt),
     isDeleted |-> task.isDeleted]

\* the exception Task.from_dict(data) raises, "none" when it returns;
\* the keyword arguments are evaluated in the order they are written
from_dict_exc(data) ==
    IF ~data.isDict THEN "TypeError"
    ELSE IF "id" \notin data.keys THEN "KeyError"
    ELSE IF "description" \notin data.keys THEN "KeyError"
    ELSE IF "status" \notin data.keys THEN "KeyError"
    ELSE IF "createdAt" \notin data.keys THEN "KeyError"
    ELSE IF ~data.createdAt.valid THEN "ValueError"
    ELSE IF "updatedAt" \notin data.keys THEN "KeyError"
    ELSE IF ~data.updatedAt.valid THEN "ValueError"
    ELSE IF "isDeleted" \notin data.keys THEN "KeyError"
    ELSE "none"

from_dict(data) ==
    Task(data.id, data.description, data.status,
         fromisoformat(data.createdAt), fromisoformat(data.updatedAt),
         data.isDeleted)

\* ------------------------------------------------------------------------
\* The backing file
\* ------------------------------------------------------------------------
\* kind: "absent"  no file
\*       "garbage" text json.load rejects (the empty file included)
\*       "scalar"  a JSON number, null or boolean
\*       "object"  a JSON object; items are its keys, which are strings
\*       "array"   a JSON array; items are its elements
FileOf(kind, items) == [kind |-> kind, items |-> items]

Absent == FileOf("absent", <<>>)

\* what json.dump([], f) leaves in the file
EmptyStore == FileOf("array", <<>>)

\* [f(s[1]), ..., f(s[n])] for the two conversions
dump_all(tasks) == [i \in 1 .. Len(tasks) |-> to_dict(tasks[i])]
parse_all(items) == [i \in 1 .. Len(items) |-> from_dict(items[i])]

\* a Python value json.dump rejects with TypeError (a set, bytes, an object)
NotJson == "<set>"

\* json.dump can write the record of the task
json_ok(task) == task.description # NotJson /\ task.status # NotJson

\* open(file_path, "w") followed by json.dump of the records: the file is
\* truncated first and written piece by piece, so a record json.dump rejects
\* leaves a text that is not JSON
write_all(tasks) ==
    IF \E i \in 1 .. Len(tasks) : ~json_ok(tasks[i])
      THEN [exc |-> "TypeError", file |-> FileOf("garbage", <<>>)]
    ELSE [exc |-> "none", file |-> FileOf("array", dump_all(tasks))]

\* ------------------------------------------------------------------------
\* TaskStore
\* ------------------------------------------------------------------------
\* init as it would be if it overwrote the file whatever force is
init_always(f, force) == EmptyStore

\* TaskStore.init: the content of the file afterwards
init(f, force) ==
    IF f.kind # "absent" /\ ~force THEN f ELSE EmptyStore

\* the exception that json.load followed by the list comprehension raises
\* on an existing file, "none" when every element converts
parse_exc(f) ==
    IF f.kind = "garbage" THEN "JSONDecodeError"
    ELSE IF f.kind = "scalar" THEN "TypeError"
    ELSE LET bad == {i \in 1 .. Len(f.items) : from_dict_exc(f.items[i]) # "none"}
         IN  IF bad = {} THEN "none"
             ELSE from_dict_exc(f.items[CHOOSE i \in bad : \A j \in bad : i <= j])

\* load_tasks as it would be if it initialized the store whether or not the
\* file exists
load_tasks_always_init(f) ==
    [exc |-> "none", tasks |-> <<>>, file |-> init(f, TRUE)]

\* TaskStore.load_tasks: exc is the exception that leaves it ("none" when it
\* returns), tasks the list it returns, file the content of the file afterwards
load_tasks(f) ==
    LET f0 == IF f.kind = "absent" THEN init(f, TRUE) ELSE f
        e  == parse_exc(f0)
    IN  IF e = "none"
          THEN [exc |-> "none", tasks |-> parse_all(f0.items), file |-> f0]
        ELSE IF e \in {"JSONDecodeError", "KeyError"}
          THEN [exc |-> "none", tasks |-> <<>>, file |-> init(f0, TRUE)]
        ELSE [exc |-> e, tasks |-> <<>>, file |-> f0]

\* get_num_of_tasks as it would be if it counted the live tasks only
get_num_of_tasks_live(f) ==
    LET r == load_tasks(f)
        live(task) == ~task.isDeleted
    IN  [exc |-> r.exc, num |-> Len(SelectSeq(r.tasks, live)), file |-> r.file]

\* TaskStore.get_num_of_tasks
get_num_of_tasks(f) ==
    LET r == load_tasks(f)
    IN  [exc |-> r.exc, num |-> Len(r.tasks), file |-> r.file]

\* save_task as it would be with "len(tasks) <= task.id" for its test
save_task_le(f, task, now) ==
    LET r == load_tasks(f)
        t == [task EXCEPT !.updatedAt = now]
        n == Len(r.tasks)
        p == py_index(n, task.id - 1)
    IN  IF r.exc # "none" THEN [exc |-> r.exc, file |-> r.file]
        ELSE IF n <= task.id
          THEN write_all(list_insert(r.tasks, task.id - 1, t))
        ELSE IF p = 0 THEN [exc |-> "IndexError", file |-> r.file]
        ELSE write_all([r.tasks EXCEPT ![p] = t])

\* save_task as it would be if it put the task in front of the list
save_task_insert_front(f, task, now) ==
    LET r == load_tasks(f)
        t == [task EXCEPT !.updatedAt = now]
        n == Len(r.tasks)
        p == py_index(n, task.id - 1)
    IN  IF r.exc # "none" THEN [exc |-> r.exc, file |-> r.file]
        ELSE IF n < task.id
          THEN write_all(list_insert(r.tasks, 0, t))
        ELSE IF p = 0 THEN [exc |-> "IndexError", file |-> r.file]
        ELSE write_all([r.tasks EXCEPT ![p] = t])

\* save_task as it would be if it stamped createdAt instead of updatedAt
save_task_stamps_created(f, task, now) ==
    LET r == load_tasks(f)
        t == [task EXCEPT !.createdAt = now]
        n == Len(r.tasks)
        p == py_index(n, task.id - 1)
    IN  IF r.exc # "none" THEN [exc |-> r.exc, file |-> r.file]
        ELSE IF n < task.id
          THEN write_all(list_insert(r.tasks, task.id - 1, t))
        ELSE IF p = 0 THEN [exc |-> "IndexError", file |-> r.file]
        ELSE write_all([r.tasks EXCEPT ![p] = t])

\* save_task as it would be if it always inserted and never overwrote
save_task_always_inserts(f, task, now) ==
    LET r == load_tasks(f)
        t == [task EXCEPT !.updatedAt = now]
    IN  IF r.exc # "none" THEN [exc |-> r.exc, file |-> r.file]
        ELSE write_all(list_insert(r.tasks, task.id - 1, t))

\* TaskStore.save_task, now being what datetime.now() returns
save_task(f, task, now) ==
    LET r == load_tasks(f)
        t == [task EXCEPT !.updatedAt = now]
        n == Len(r.tasks)
        p == py_index(n, task.id - 1)
    IN  IF r.exc # "none" THEN [exc |-> r.exc, file |-> r.file]
        ELSE IF n < task.id
          THEN write_all(list_insert(r.tasks, task.id - 1, t))
        ELSE IF p = 0 THEN [exc |-> "IndexError", file |-> r.file]
        ELSE write_all([r.tasks EXCEPT ![p] = t])

\* get_task as it would be without the isDeleted test
get_task_ignores_deleted(f, task_id) ==
    LET r == load_tasks(f)
        p == py_index(Len(r.tasks), task_id - 1)
    IN  IF r.exc # "none" THEN [exc |-> r.exc, task |-> <<>>, file |-> r.file]
        ELSE IF p = 0 THEN [exc |-> "TaskNotFound", task |-> <<>>, file |-> r.file]
        ELSE [exc |-> "none", task |-> <<r.tasks[p]>>, file |-> r.file]

\* TaskStore.get_task: task is <<the task>> when it returns
get_task(f, task_id) ==
    LET r == load_tasks(f)
        p == py_index(Len(r.tasks), task_id - 1)
    IN  IF r.exc # "none" THEN [exc |-> r.exc, task |-> <<>>, file |-> r.file]
        ELSE IF p = 0 THEN [exc |-> "TaskNotFound", task |-> <<>>, file |-> r.file]
        ELSE IF r.tasks[p].isDeleted
          THEN [exc |-> "TaskNotFound", task |-> <<>>, file |-> r.file]
        ELSE [exc |-> "none", task |-> <<r.tasks[p]>>, file |-> r.file]

\* ------------------------------------------------------------------------
\* TaskManager
\* ------------------------------------------------------------------------
\* the values a Manager operation hands back: ret is "True", "False", "list"
\* or "raise" (exc then names the exception that escaped)
Result(ret, exc, tasks, file) ==
    [ret |-> ret, exc |-> exc, tasks |-> tasks, file |-> file]

\* list_tasks as it would be without the isDeleted test
list_tasks_with_deleted(f, status) ==
    LET r == load_tasks(f)
        allowed_status == IF status = NoFilter THEN TaskStatus ELSE {status}
        keep(task) == task.status \in allowed_status
    IN  IF r.exc # "none" THEN Result("raise", r.exc, <<>>, r.file)
        ELSE Result("list", "none", SelectSeq(r.tasks, keep), r.file)

\* TaskManager.list_tasks
list_tasks(f, status) ==
    LET r == load_tasks(f)
        allowed_status == IF status = NoFilter THEN TaskStatus ELSE {status}
        keep(task) == task.status \in allowed_status /\ task.isDeleted = FALSE
    IN  IF r.exc # "none" THEN Result("raise", r.exc, <<>>, r.file)
        ELSE Result("list", "none", SelectSeq(r.tasks, keep), r.file)

\* add_task as it would be if it took the count itself for the new id
add_task_id_is_count(f, description, t1, t3) ==
    LET c == get_num_of_tasks(f)
        task == Task(c.num, description, "todo", t1, t1, FALSE)
        s == save_task(c.file, task, t3)
    IN  IF c.exc # "none" THEN Result("False", "none", <<>>, c.file)
        ELSE IF s.exc # "none" THEN Result("False", "none", <<>>, s.file)
        ELSE Result("True", "none", <<task>>, s.file)

\* TaskManager.add_task; t1 and t3 are the values of datetime.now() when the
\* task is built and when it is saved
add_task(f, description, t1, t3) ==
    LET c == get_num_of_tasks(f)
        task == Task(c.num + 1, description, "todo", t1, t1, FALSE)
        s == save_task(c.file, task, t3)
    IN  IF c.exc # "none" THEN Result("False", "none", <<>>, c.file)
        ELSE IF s.exc # "none" THEN Result("False", "none", <<>>, s.file)
        ELSE Result("True", "none", <<task>>, s.file)

\* remove_task as it would be without its except clause
remove_task_uncaught(f, task_id, now) ==
    LET g == get_task(f, task_id)
        task == [g.task[1] EXCEPT !.isDeleted = TRUE]
        s == save_task(g.file, task, now)
    IN  IF g.exc # "none" THEN Result("raise", g.exc, <<>>, g.file)
        ELSE IF s.exc # "none" THEN Result("raise", s.exc, <<>>, s.file)
        ELSE Result("True", "none", <<task>>, s.file)

\* TaskManager.remove_task: only TaskNotFound is caught
remove_task(f, task_id, now) ==
    LET g == get_task(f, task_id)
        task == [g.task[1] EXCEPT !.isDeleted = TRUE]
        s == save_task(g.file, task, now)
    IN  IF g.exc = "TaskNotFound" THEN Result("False", "none", <<>>, g.file)
        ELSE IF g.exc # "none" THEN Result("raise", g.exc, <<>>, g.file)
        ELSE IF s.exc # "none" THEN Result("raise", s.exc, <<>>, s.file)
        ELSE Result("True", "none", <<task>>, s.file)

\* update_task_status as it would be if a status could only move forward
update_task_status_forward_only(f, task_id, status, now) ==
    LET g == get_task(f, task_id)
        rank(x) == IF x = "todo" THEN 0 ELSE IF x = "in-progress" THEN 1 ELSE 2
        task == [g.task[1] EXCEPT !.status = status]
        s == save_task(g.file, task, now)
    IN  IF g.exc # "none" THEN Result("False", "none", <<>>, g.file)
        ELSE IF rank(status) < rank(g.task[1].status)
          THEN Result("False", "none", <<>>, g.file)
        ELSE IF s.exc # "none" THEN Result("False", "none", <<>>, s.file)
        ELSE Result("True", "none", <<task>>, s.file)

\* TaskManager.update_task_status: every exception is caught
update_task_status(f, task_id, status, now) ==
    LET g == get_task(f, task_id)
        task == [g.task[1] EXCEPT !.status = status]
        s == save_task(g.file, task, now)
    IN  IF g.exc # "none" THEN Result("False", "none", <<>>, g.file)
        ELSE IF s.exc # "none" THEN Result("False", "none", <<>>, s.file)
        ELSE Result("True", "none", <<task>>, s.file)

\* ------------------------------------------------------------------------
\* State
\* ------------------------------------------------------------------------
VARIABLES
    file,      \* content of the backing file
    clock,     \* the value datetime.now() returns
    op,        \* log: name of the last operation
    res,       \* log: what it handed back, [ret, exc]
    assigned,  \* the ids of the tasks add_task reported as added, in order
    calls      \* for each concurrent caller, the call it is in the middle of

vars == <<file, clock, op, res, assigned, calls>>

\* what the history keeps of a result
Returned(r) == [ret |-> r.ret, exc |-> r.exc]

\* number of records of a file, 0 when it holds no sequence
Size(f) == IF f.kind \in {"array", "object"} THEN Len(f.items) ELSE 0

\* the description the caller gives the task it adds to a store of n records
DescriptionFor(n) == IF n % 2 = 0 THEN "a" ELSE "b"

\* the two callers that use the same store file at the same time
Callers == {1, 2}

\* a caller that is between two calls
Idle ==
    [pc |-> "idle", kind |-> "none", id |-> 0, status |-> "none",
     task |-> <<>>, pending |-> Absent]

Init ==
    /\ file = Absent
    /\ clock = 0
    /\ op = "start"
    /\ res = [ret |-> "None", exc |-> "none"]
    /\ assigned = <<>>
    /\ calls = [c \in Callers |-> Idle]

\* the effect of a call on the file; the log records the call when log holds
Finish(log, name, r) ==
    /\ file' = r.file
    /\ op' = IF log THEN name ELSE op
    /\ res' = IF log THEN Returned(r) ELSE res

\* time passes between two operations
Tick(log) ==
    /\ clock < MaxClock
    /\ clock' = clock + 1
    /\ op' = IF log THEN "tick" ELSE op
    /\ res' = IF log THEN [ret |-> "None", exc |-> "none"] ELSE res
    /\ UNCHANGED <<file, assigned, calls>>

\* m.add_task(description); time may pass between building and saving
Add(log) ==
    \E d \in {DescriptionFor(Size(file))} :
      \E t3 \in {t \in {clock, clock + 1} : t <= MaxClock} :
        LET r == add_task(file, d, clock, t3)
        IN  /\ Size(file) < MaxTasks
            /\ clock' = t3
            /\ Finish(log, "add", r)
            /\ assigned' = IF r.ret = "True" THEN Append(assigned, r.tasks[1].id)
                           ELSE assigned
            /\ UNCHANGED calls

\* m.remove_task(task_id)
Remove(log) ==
    \E id \in CallIds :
        /\ Finish(log, "remove", remove_task(file, id, clock))
        /\ UNCHANGED <<clock, assigned, calls>>

\* m.update_task_status(task_id, status)
UpdateStatus(log) ==
    \E id \in CallIds : \E s \in TaskStatus :
        /\ Finish(log, "update", update_task_status(file, id, s, clock))
        /\ UNCHANGED <<clock, assigned, calls>>

\* m.list_tasks(status)
List(log) ==
    \E s \in TaskStatus \cup {NoFilter} :
        /\ Finish(log, "list", list_tasks(file, s))
        /\ UNCHANGED <<clock, assigned, calls>>

Next ==
    Tick(FALSE) \/ Add(FALSE) \/ Remove(FALSE) \/ UpdateStatus(FALSE) \/ List(FALSE)

\* a single caller of the Manager on a store nothing else touches
Spec == Init /\ [][Next]_vars

CallNext ==
    Tick(TRUE) \/ Add(TRUE) \/ Remove(TRUE) \/ UpdateStatus(TRUE) \/ List(TRUE)

\* the same caller, keeping a log of the last call and of what it returned
CallSpec == Init /\ [][CallNext]_vars

\* ------------------------------------------------------------------------
\* The store used directly, on a file other programs may rewrite
\* ------------------------------------------------------------------------
\* ids of the tasks a caller hands to save_task: zero, in range, one past
\* the end and further
SaveIds == 0 .. (MaxTasks + 1)

\* the tasks a caller hands to save_task: built at time 0, live or deleted
SaveInputs ==
    {Task(k, DescriptionFor(k), sd[1], 0, 0, sd[2]) :
        k \in SaveIds, sd \in {<<"todo", FALSE>>, <<"done", TRUE>>}}

\* a JSON value that is not an object (a number, a string, null)
NotADict ==
    [isDict |-> FALSE, keys |-> {}, id |-> 0, description |-> "", status |-> "",
     createdAt |-> BadIso, updatedAt |-> BadIso, isDeleted |-> FALSE]

\* the record of a task, as to_dict writes it
GoodDict == to_dict(Task(1, "a", "todo", 0, 0, FALSE))

\* contents that are not a store: a file that is no JSON (or empty), a JSON
\* number, objects, an array of a number, records with a key missing, records
\* with a timestamp that is no ISO-8601 text
CorruptFiles ==
    { FileOf("garbage", <<>>),
      FileOf("scalar", <<>>),
      FileOf("object", <<>>),
      FileOf("object", <<NotADict>>),
      FileOf("array", <<NotADict>>),
      FileOf("array", <<[GoodDict EXCEPT !.keys = FieldNames \ {"isDeleted"}]>>),
      FileOf("array", <<GoodDict, [GoodDict EXCEPT !.keys = FieldNames \ {"id"}]>>),
      FileOf("array", <<[GoodDict EXCEPT !.createdAt = BadIso]>>),
      FileOf("array", <<GoodDict, [GoodDict EXCEPT !.updatedAt = BadIso,
                                                   !.keys = FieldNames \ {"isDeleted"}]>>) }

\* another program deletes the file or overwrites it with something else
External ==
    /\ file' \in CorruptFiles \cup {Absent}
    /\ op' = "external"
    /\ res' = [ret |-> "None", exc |-> "none"]
    /\ UNCHANGED <<clock, assigned, calls>>

\* s.init(force)
InitStore ==
    \E force \in BOOLEAN :
        /\ file' = init(file, force)
        /\ op' = IF force THEN "init" ELSE "init_noforce"
        /\ res' = [ret |-> "None", exc |-> "none"]
        /\ UNCHANGED <<clock, assigned, calls>>

\* s.load_tasks()
LoadAll ==
    LET r == load_tasks(file)
    IN  /\ file' = r.file
        /\ op' = "load"
        /\ res' = [ret |-> IF r.exc = "none" THEN "list" ELSE "raise", exc |-> r.exc]
        /\ UNCHANGED <<clock, assigned, calls>>

\* s.get_num_of_tasks()
Count ==
    LET r == get_num_of_tasks(file)
    IN  /\ file' = r.file
        /\ op' = "count"
        /\ res' = [ret |-> IF r.exc = "none" THEN "int" ELSE "raise", exc |-> r.exc]
        /\ UNCHANGED <<clock, assigned, calls>>

\* s.get_task(task_id)
GetById ==
    \E id \in CallIds :
        LET r == get_task(file, id)
        IN  /\ file' = r.file
            /\ op' = "get"
            /\ res' = [ret |-> IF r.exc = "none" THEN "task" ELSE "raise", exc |-> r.exc]
            /\ UNCHANGED <<clock, assigned, calls>>

\* s.save_task(task)
SaveTask ==
    \E task \in SaveInputs :
        LET r == save_task(file, task, clock)
        IN  /\ Size(r.file) <= MaxTasks
            /\ file' = r.file
            /\ op' = "save"
            /\ res' = [ret |-> IF r.exc = "none" THEN "None" ELSE "raise", exc |-> r.exc]
            /\ UNCHANGED <<clock, assigned, calls>>

StoreNext ==
    Tick(TRUE) \/ External \/ InitStore \/ LoadAll \/ Count \/ GetById
      \/ SaveTask \/ List(TRUE)

StoreSpec == Init /\ [][StoreNext]_vars

\* ------------------------------------------------------------------------
\* Two callers on the same file: nothing locks the file, so the reads and
\* the writes of their calls interleave
\* ------------------------------------------------------------------------
\* the id and the status the concurrent callers pass
RaceIds == {1}
RaceStatus == {"done"}

\* the file between an open for writing (mode "w" or "w+") and the write:
\* empty, no JSON
Truncated == FileOf("garbage", <<>>)

\* a caller that holds the task it is about to save
Saving(call, task) ==
    [call EXCEPT !.pc = "save", !.task = <<task>>, !.pending = Absent]

\* the callers that are in the middle of an add
Adding == {c \in Callers : calls[c].kind = "add"}

\* a caller that enters an operation: load_tasks tests os.path.exists first
\* and goes on to init() when the file is absent, to the read otherwise
Entering(kind, id, status) ==
    [pc |-> IF file.kind = "absent" THEN "init" ELSE "read",
     kind |-> kind, id |-> id, status |-> status,
     task |-> <<>>, pending |-> Absent]

\* what a caller does with the list load_tasks returned, f being the file
\* that holds that list. Inside save_task (the caller holds a task) the task
\* is put in the list, which becomes the content to write. Before it,
\* add_task counts the list and builds the task, remove_task and
\* update_task_status look the task up; a failure ends the call.
Loaded(call, f) ==
    IF call.task # <<>>
      THEN LET s == save_task(f, call.task[1], clock)
           IN  IF s.exc # "none" THEN Idle
               ELSE [call EXCEPT !.pc = "open", !.pending = s.file]
    ELSE IF call.kind = "add"
      THEN LET n == get_num_of_tasks(f)
           IN  Saving(call, Task(n.num + 1, DescriptionFor(call.id), "todo",
                                  clock, clock, FALSE))
    ELSE LET g == get_task(f, call.id)
         IN  IF g.exc # "none" THEN Idle
             ELSE IF call.kind = "remove"
               THEN Saving(call, [g.task[1] EXCEPT !.isDeleted = TRUE])
             ELSE Saving(call, [g.task[1] EXCEPT !.status = call.status])

\* what the load does after it has read the file f: the call goes on with
\* the list when f parses, to the re-creation of the store when json.load
\* raised JSONDecodeError or from_dict KeyError, and ends on another
\* exception
AfterRead(call, f) ==
    LET e == parse_exc(f)
    IN  IF e = "none" THEN Loaded(call, f)
        ELSE IF e \in {"JSONDecodeError", "KeyError"}
          THEN [call EXCEPT !.pc = "heal"]
        ELSE Idle

\* add_task enters get_num_of_tasks: the test for the file in load_tasks
StartAdd ==
    \E c \in Callers :
        /\ calls[c].pc = "idle"
        /\ Len(assigned) + Cardinality(Adding) < MaxTasks
        /\ calls' = [calls EXCEPT ![c] = Entering("add", c, "todo")]
        /\ UNCHANGED <<file, clock, op, res, assigned>>

\* remove_task enters get_task: the test for the file in load_tasks
StartRemove ==
    \E c \in Callers : \E id \in RaceIds :
        /\ calls[c].pc = "idle"
        /\ calls' = [calls EXCEPT ![c] = Entering("remove", id, "none")]
        /\ UNCHANGED <<file, clock, op, res, assigned>>

\* update_task_status enters get_task: the test for the file in load_tasks
StartUpdate ==
    \E c \in Callers : \E id \in RaceIds : \E s \in RaceStatus :
        /\ calls[c].pc = "idle"
        /\ calls' = [calls EXCEPT ![c] = Entering("update", id, s)]
        /\ UNCHANGED <<file, clock, op, res, assigned>>

\* init() of a file that was absent at the test: open(file_path, "w+")
\* creates the file, and empties it when another caller has made it since
InitOpen ==
    \E c \in Callers :
        /\ calls[c].pc = "init"
        /\ file' = Truncated
        /\ calls' = [calls EXCEPT ![c].pc = "initw"]
        /\ UNCHANGED <<clock, op, res, assigned>>

\* the read of the file in the load_tasks that get_num_of_tasks and get_task
\* call
ReadTasks ==
    \E c \in Callers :
        /\ calls[c].pc = "read"
        /\ calls' = [calls EXCEPT ![c] = AfterRead(calls[c], file)]
        /\ UNCHANGED <<file, clock, op, res, assigned>>

\* the read of the file in the load_tasks that save_task calls (the file
\* exists: the caller has loaded it before), and the update of the list
SaveLoad ==
    \E c \in Callers :
        /\ calls[c].pc = "save"
        /\ calls' = [calls EXCEPT ![c] = AfterRead(calls[c], file)]
        /\ UNCHANGED <<file, clock, op, res, assigned>>

\* init(force=True) after a read that failed: open(file_path, "w+") empties
\* the file, whatever another caller has written since the read
HealOpen ==
    \E c \in Callers :
        /\ calls[c].pc = "heal"
        /\ file' = Truncated
        /\ calls' = [calls EXCEPT ![c].pc = "healw"]
        /\ UNCHANGED <<clock, op, res, assigned>>

\* open(file_path, "w") in save_task truncates the file
OpenForWrite ==
    \E c \in Callers :
        /\ calls[c].pc = "open"
        /\ file' = Truncated
        /\ calls' = [calls EXCEPT ![c].pc = "write"]
        /\ UNCHANGED <<clock, op, res, assigned>>

\* what the write of a pending content leaves in the file f: the content,
\* unless another caller wrote a longer text after this one opened the file,
\* whose end then follows the content (texts of as many records may be
\* longer or shorter)
Written(f, pending) ==
    IF f.kind # "array" \/ Len(f.items) = 0 THEN {pending}
    ELSE IF Len(pending.items) > Len(f.items) THEN {pending}
    ELSE IF Len(pending.items) < Len(f.items) THEN {Truncated}
    ELSE {pending, Truncated}

\* json.dump([], f) of init() on an absent file; load_tasks goes on to read
InitWrite ==
    \E c \in Callers : \E g \in Written(file, EmptyStore) :
        /\ calls[c].pc = "initw"
        /\ file' = g
        /\ calls' = [calls EXCEPT ![c].pc = "read"]
        /\ UNCHANGED <<clock, op, res, assigned>>

\* json.dump([], f) of init(force=True); load_tasks returns the empty list
HealWrite ==
    \E c \in Callers : \E g \in Written(file, EmptyStore) :
        /\ calls[c].pc = "healw"
        /\ file' = g
        /\ calls' = [calls EXCEPT ![c] = Loaded(calls[c], EmptyStore)]
        /\ UNCHANGED <<clock, op, res, assigned>>

\* json.dump and the close of the file in save_task; the call returns True
WriteAll ==
    \E c \in Callers : \E g \in Written(file, calls[c].pending) :
        /\ calls[c].pc = "write"
        /\ file' = g
        /\ calls' = [calls EXCEPT ![c] = Idle]
        /\ assigned' = IF calls[c].kind = "add"
                         THEN Append(assigned, calls[c].task[1].id)
                       ELSE assigned
        /\ UNCHANGED <<clock, op, res>>

RaceNext ==
    \/ StartAdd \/ StartRemove \/ StartUpdate
    \/ InitOpen \/ InitWrite \/ ReadTasks \/ SaveLoad
    \/ HealOpen \/ HealWrite \/ OpenForWrite \/ WriteAll

\* two callers of the Manager on one store file
RaceSpec == Init /\ [][RaceNext]_vars

\* ------------------------------------------------------------------------
\* Properties of the Manager, for a single caller (Spec; C5, C6 and C9 are
\* read off the log of CallSpec)
\* ------------------------------------------------------------------------
\* the ids of the records of the file that are not soft-deleted
LiveIds(f) == {f.items[i].id : i \in {j \in 1 .. Size(f) : ~f.items[j].isDeleted}}

\* the ids of the tasks list_tasks returns
ListedIds(f, status) ==
    LET l == list_tasks(f, status).tasks IN {l[i].id : i \in 1 .. Len(l)}

\* C1: in every reachable store and for every description d, add(d) returns
\* true and the list() that follows is the list() from before the add, every
\* task unchanged, followed by exactly one new task, which has description
\* d, status todo and is not deleted; on a fresh store it is one task, id 1.
C1_AddThenList ==
    LET was == list_tasks(file, NoFilter).tasks
    IN  \A d \in Descriptions :
            LET r   == add_task(file, d, clock, clock)
                now == list_tasks(r.file, NoFilter).tasks
                new == now[Len(now)]
            IN  /\ r.ret = "True"
                /\ Len(now) = Len(was) + 1
                /\ SubSeq(now, 1, Len(was)) = was
                /\ new.description = d /\ new.status = "todo" /\ new.isDeleted = FALSE
                /\ (file \in {Absent, EmptyStore} => Len(now) = 1 /\ new.id = 1)

\* two adds have succeeded, the second on a store that held a listed task,
\* and both tasks are listed
C1_Witness ==
    /\ assigned = <<1, 2>>
    /\ Size(file) = 2
    /\ ListedIds(file, NoFilter) = {1, 2}

\* C2: every add assigns the id count() + 1, the ids successive adds have
\* assigned are strictly increasing, and the id the next add assigns is
\* larger than every id assigned so far, removed tasks included.
C2_IdsNeverReused ==
    /\ \A i, j \in 1 .. Len(assigned) : i < j => assigned[i] < assigned[j]
    /\ LET r == add_task(file, DescriptionFor(Size(file)), clock, clock)
       IN  /\ r.ret = "True"
           /\ r.tasks[1].id = get_num_of_tasks(file).num + 1
           /\ \A i \in 1 .. Len(assigned) : assigned[i] < r.tasks[1].id

\* an add has assigned a second id after the first task was removed: the
\* second task was built later than the removal wrote the first
C2_Witness ==
    /\ Len(assigned) = 2
    /\ Size(file) = 2
    /\ file.items[1].isDeleted
    /\ file.items[2].createdAt.ticks > file.items[1].updatedAt.ticks

\* C3: remove(id) of a live task returns true; afterwards no list returns the
\* task, getById(id) fails with TaskNotFound, the record is still at position
\* id - 1 with isDeleted true, count() is the same and every other record is
\* unchanged.
C3_RemoveIsSoftDelete ==
    \A id \in LiveIds(file) :
        LET r == remove_task(file, id, clock)
        IN  /\ r.ret = "True"
            /\ \A s \in TaskStatus \cup {NoFilter} : id \notin ListedIds(r.file, s)
            /\ get_task(r.file, id).exc = "TaskNotFound"
            /\ get_num_of_tasks(r.file).num = get_num_of_tasks(file).num
            /\ r.file.kind = "array"
            /\ Len(r.file.items) = Len(file.items)
            /\ r.file.items[id].id = id
            /\ r.file.items[id].isDeleted = TRUE
            /\ \A j \in 1 .. Len(file.items) : j # id => r.file.items[j] = file.items[j]

\* a remove has soft-deleted the first of two tasks
C3_Witness ==
    /\ Size(file) = 2
    /\ file.items[1].isDeleted /\ ~file.items[2].isDeleted

\* C4: for every id that names no live task (past the end, zero or negative,
\* or already removed), remove(id) returns false and the persisted sequence
\* afterwards is the one before.
C4_RemoveOfNoLiveTask ==
    \A id \in Ids \ LiveIds(file) :
        LET r == remove_task(file, id, clock)
        IN  /\ r.ret = "False"
            /\ load_tasks(r.file).tasks = load_tasks(file).tasks

\* C5: for every live id and every status s' of the enum, whatever the
\* status s the task has, updateStatus(id, s') returns true, leaves the task
\* with status s' and an updatedAt that is not earlier than the one before.
C5_FreeTransitions ==
    \A id \in LiveIds(file) : \A s \in TaskStatus :
        LET r == update_task_status(file, id, s, clock)
            t == r.file.items[id]
        IN  /\ r.ret = "True"
            /\ t.id = id
            /\ t.status = s
            /\ t.updatedAt.valid
            /\ t.updatedAt.ticks >= file.items[id].updatedAt.ticks

\* an update has succeeded and left the only task with the first status of
\* the enum, later than the task was created
C5_Witness ==
    /\ op = "update" /\ res.ret = "True"
    /\ Size(file) = 1
    /\ file.items[1].status = "todo"
    /\ file.items[1].updatedAt.ticks > file.items[1].createdAt.ticks

\* the elements of a sequence
Range(seq) == {seq[i] : i \in 1 .. Len(seq)}

\* the task a record of the file stands for, field by field
SameTask(task, item) ==
    /\ task.id = item.id
    /\ task.description = item.description
    /\ task.status = item.status
    /\ task.createdAt = item.createdAt.ticks
    /\ task.updatedAt = item.updatedAt.ticks
    /\ task.isDeleted = item.isDeleted

\* C6: list(s) returns exactly the persisted tasks that are not deleted and
\* have status s; list() returns exactly the tasks of list(todo),
\* list(in-progress) and list(done) together, none of them deleted; both in
\* ascending id.
C6_ListIsFilter ==
    /\ \A s \in TaskStatus \cup {"bogus"} :
          LET l == list_tasks(file, s).tasks
          IN  /\ \A i, j \in 1 .. Len(l) : i < j => l[i].id < l[j].id
              /\ \A k \in 1 .. Size(file) :
                    (~file.items[k].isDeleted /\ file.items[k].status = s)
                      <=> (\E i \in 1 .. Len(l) : SameTask(l[i], file.items[k]))
              /\ \A i \in 1 .. Len(l) :
                    \E k \in 1 .. Size(file) : SameTask(l[i], file.items[k])
    /\ LET l == list_tasks(file, NoFilter).tasks
       IN  /\ \A i, j \in 1 .. Len(l) : i < j => l[i].id < l[j].id
           /\ \A i \in 1 .. Len(l) : ~l[i].isDeleted
           /\ Range(l) = UNION {Range(list_tasks(file, s).tasks) : s \in TaskStatus}

\* a list has run on a store that holds a deleted task and a live one
C6_Witness ==
    /\ op = "list" /\ res.ret = "list"
    /\ Size(file) = 2
    /\ file.items[1].isDeleted
    /\ ~file.items[2].isDeleted /\ file.items[2].status = "done"

\* C9: no Manager operation lets TaskNotFound out; remove and updateStatus
\* of an id past the end or of a soft-deleted task return false, and the
\* failed updateStatus leaves the persisted sequence as it was (the file is
\* the one a load leaves).
C9_NotFoundIsFalse ==
    LET was == load_tasks(file).file
    IN  \A id \in NotFoundIds :
            LET gone == id > Size(file)
                          \/ (id \in 1 .. Size(file) /\ file.items[id].isDeleted)
                rm   == remove_task(file, id, clock)
            IN  /\ rm.exc # "TaskNotFound"
                /\ gone => rm.ret = "False"
                /\ \A s \in TaskStatus :
                      LET u == update_task_status(file, id, s, clock)
                      IN  /\ u.exc # "TaskNotFound"
                          /\ gone => u.ret = "False" /\ u.file = was

\* an update has failed on a store whose only task is soft-deleted
C9_Witness ==
    /\ op = "update" /\ res.ret = "False"
    /\ Size(file) = 1
    /\ file.items[1].isDeleted

\* the record at position i of the file has id i
Positional(f) == \A i \in 1 .. Size(f) : f.items[i].id = i

\* C11: in every state a single caller of the Manager reaches from an absent
\* store, the record at position i has id i, the length of the sequence is
\* the highest id assigned and no two records share an id; and no remove or
\* updateStatus, whatever the id (zero and negative included), nor any add,
\* leaves a store where that is not so.
C11_PositionalIds ==
    /\ Positional(file)
    /\ Size(file) = Len(assigned)
    /\ \A k \in 1 .. Len(assigned) : assigned[k] <= Size(file)
    /\ Len(assigned) > 0 => assigned[Len(assigned)] = Size(file)
    /\ \A i, j \in 1 .. Size(file) : i # j => file.items[i].id # file.items[j].id
    /\ Positional(add_task(file, DescriptionFor(Size(file)), clock, clock).file)
    /\ \A id \in Ids :
          /\ Positional(remove_task(file, id, clock).file)
          /\ Positional(update_task_status(file, id, "done", clock).file)

\* two tasks were added, the first was updated and the second removed, and
\* each record is still at the position of its id
C11_Witness ==
    /\ assigned = <<1, 2>>
    /\ file.items[1].id = 1 /\ file.items[1].status = "in-progress"
    /\ file.items[2].id = 2 /\ file.items[2].isDeleted

\* C12: on every store the Manager builds and for every id, getById(id)
\* returns a task, whose id is the one asked for, exactly when
\* 1 <= id <= count() and the record at position id - 1 is not deleted; for
\* every other id, zero and negative ones included, it fails with
\* TaskNotFound.
C12_GetByIdIff ==
    \A id \in Ids :
        LET g     == get_task(file, id)
            found == /\ 1 <= id /\ id <= get_num_of_tasks(file).num
                     /\ ~file.items[id].isDeleted
        IN  IF found THEN g.exc = "none" /\ g.task # <<>> /\ g.task[1].id = id
            ELSE g.exc = "TaskNotFound"

\* the values a caller may pass for a status: the annotation of the
\* parameter is not checked when the program runs
AnyStatus == TaskStatus \cup {"bogus"}

\* C13: whatever value a caller passes to updateStatus, and for whatever id,
\* every task persisted afterwards has a status of the enum and every task
\* that is not deleted is returned by list() without a filter.
C13_StatusEnumEnforced ==
    \A id \in CallIds : \A s \in AnyStatus :
        LET u == update_task_status(file, id, s, clock)
        IN  /\ \A i \in 1 .. Size(u.file) : u.file.items[i].status \in TaskStatus
            /\ ListedIds(u.file, NoFilter) = LiveIds(u.file)

\* the values a caller may pass for a description: text, or a value that
\* json.dump cannot write
AnyDescription == Descriptions \cup {NotJson}

\* C14: whenever add returns false, whatever step of its save failed (the
\* rewrite of the file after it was opened for writing included), list() and
\* loadAll() afterwards return the sequences they returned before the add.
C14_AddAllOrNothing ==
    LET listed == list_tasks(file, NoFilter).tasks
        stored == load_tasks(file).tasks
    IN  \A d \in AnyDescription :
            LET r == add_task(file, d, clock, clock)
            IN  r.ret = "False" =>
                    /\ list_tasks(r.file, NoFilter).tasks = listed
                    /\ load_tasks(r.file).tasks = stored

\* every record of the file was updated no earlier than it was created
Ordered(f) ==
    \A i \in 1 .. Size(f) : f.items[i].updatedAt.ticks >= f.items[i].createdAt.ticks

\* C15: with a clock that never goes backwards, every persisted task has
\* updatedAt >= createdAt in every state add, remove and updateStatus reach
\* (and no timestamp is later than the clock); each add, and each save a
\* remove or an updateStatus makes, leaves that so and gives the saved task
\* an updatedAt that is not earlier than the one it had.
C15_Timestamps ==
    /\ Ordered(file)
    /\ \A i \in 1 .. Size(file) : file.items[i].updatedAt.ticks <= clock
    /\ \A t3 \in {clock, clock + 1} :
          Ordered(add_task(file, DescriptionFor(Size(file)), clock, t3).file)
    /\ \A id \in LiveIds(file) : \A now \in {clock, clock + 1} :
          LET rm == remove_task(file, id, now).file
              u  == update_task_status(file, id, "done", now).file
          IN  /\ Ordered(rm) /\ Ordered(u)
              /\ rm.items[id].updatedAt.ticks = now
              /\ u.items[id].updatedAt.ticks = now
              /\ now >= file.items[id].updatedAt.ticks

\* a task was removed later than it was created
C15_Witness ==
    /\ Size(file) = 1
    /\ file.items[1].isDeleted
    /\ file.items[1].updatedAt.ticks > file.items[1].createdAt.ticks

\* g is f but for the record with the given id, which has the given field
\* (isDeleted or status) set to v and updatedAt set to now; the record exists
OnlyChanged(f, g, id, field, v, now) ==
    /\ g.kind = "array" /\ Len(g.items) = Size(f)
    /\ \E i \in 1 .. Size(f) : f.items[i].id = id
    /\ \A i \in 1 .. Size(f) :
          g.items[i] = IF f.items[i].id # id THEN f.items[i]
                       ELSE [f.items[i] EXCEPT ![field] = v, !.updatedAt = isoformat(now)]

\* C16: each successful remove(id) or updateStatus(id, s), whatever the id,
\* changes only the record with that id, and of it only isDeleted or status
\* and updatedAt (so id, description and createdAt of a task never change);
\* each successful add leaves every record as it was and appends one.
C16_Frame ==
    /\ \A id \in Ids :
          LET rm == remove_task(file, id, clock)
          IN  /\ rm.ret = "True" =>
                    OnlyChanged(file, rm.file, id, "isDeleted", TRUE, clock)
              /\ \A s \in TaskStatus :
                    LET u == update_task_status(file, id, s, clock)
                    IN  u.ret = "True" =>
                            OnlyChanged(file, u.file, id, "status", s, clock)
    /\ LET r == add_task(file, DescriptionFor(Size(file)), clock, clock)
       IN  r.ret = "True" =>
              /\ Len(r.file.items) = Size(file) + 1
              /\ \A i \in 1 .. Size(file) : r.file.items[i] = file.items[i]

\* the positions of the soft-deleted records of the file
DeletedIds(f) == {i \in 1 .. Size(f) : f.items[i].isDeleted}

\* g still holds every soft-deleted record of f, at its position and with
\* every field as it was
KeepsDeleted(f, g) ==
    /\ g.kind = "array" /\ Len(g.items) >= Size(f)
    /\ \A i \in DeletedIds(f) : g.items[i] = f.items[i]

\* C18: for a single caller, no Manager operation run at a later time,
\* whatever its id (zero and negative included) and status, changes a
\* soft-deleted record: isDeleted stays true and status, updatedAt and every
\* other field stay as they were; and remove and updateStatus of the id of a
\* soft-deleted task return false.
C18_DeletionIsTerminal ==
    DeletedIds(file) # {} =>
        /\ KeepsDeleted(file, list_tasks(file, NoFilter).file)
        /\ KeepsDeleted(file,
              add_task(file, DescriptionFor(Size(file)), clock + 1, clock + 1).file)
        /\ \A id \in Ids :
              LET rm == remove_task(file, id, clock + 1)
              IN  /\ KeepsDeleted(file, rm.file)
                  /\ id \in DeletedIds(file) => rm.ret = "False"
                  /\ \A s \in AnyStatus :
                        LET u == update_task_status(file, id, s, clock + 1)
                        IN  /\ KeepsDeleted(file, u.file)
                            /\ id \in DeletedIds(file) => u.ret = "False"

\* the first task was removed at time 0; later a second task was added and
\* updated, and the record of the first is as the removal left it
C18_Witness ==
    /\ Size(file) = 2
    /\ file.items[1].isDeleted /\ file.items[1].updatedAt.ticks = 0
    /\ file.items[2].createdAt.ticks = 1
    /\ file.items[2].status = "in-progress"

\* ------------------------------------------------------------------------
\* Properties of two concurrent callers (RaceSpec)
\* ------------------------------------------------------------------------
\* C17: whenever two callers are both inside add, having read the same count
\* (each holds the id count + 1 of the file as it still is) and neither has
\* saved yet, letting one save and then the other makes both adds succeed
\* with the same id and leaves a store that holds the task of the second
\* only: the task the first was told it added is overwritten, and the store
\* has one record more, not two.
C17_LostUpdate ==
    \A p, q \in Callers :
        ( /\ p # q
          /\ calls[p] = [calls[p] EXCEPT !.pc = "save", !.kind = "add"]
          /\ calls[q] = [calls[q] EXCEPT !.pc = "save", !.kind = "add"]
          /\ file.kind = "array"
          /\ calls[p].task[1].id = Size(file) + 1
          /\ calls[q].task[1].id = Size(file) + 1 )
        => LET k  == Size(file) + 1
               s1 == save_task(file, calls[p].task[1], clock)
               s2 == save_task(s1.file, calls[q].task[1], clock)
           IN  /\ s1.exc = "none" /\ s2.exc = "none"
               /\ Size(s1.file) = k /\ s1.file.items[k].description = DescriptionFor(p)
               /\ Size(s2.file) = k /\ s2.file.items[k].description = DescriptionFor(q)
               /\ \A i \in 1 .. k : s2.file.items[i] # s1.file.items[k]
               /\ \A i \in 1 .. (k - 1) : s2.file.items[i] = file.items[i]

\* both callers have finished an add, each was told it added task 1, and the
\* store holds a single task
C17_Witness ==
    /\ \A c \in Callers : calls[c] = Idle
    /\ assigned = <<1, 1>>
    /\ file.kind = "array" /\ Size(file) = 1
    /\ file.items[1].id = 1

\* C19: in every state two concurrent callers running add, remove and
\* updateStatus reach, whatever the interleaving of their loads, id
\* computations and writes, each record at position i of the persisted
\* sequence has id i, no id appears twice, and getById(k) for k >= 1 never
\* returns a task whose id is not k.
C19_PositionalUnderRace ==
    /\ Positional(file)
    /\ \A i, j \in 1 .. Size(file) : i # j => file.items[i].id # file.items[j].id
    /\ \A k \in 1 .. (MaxTasks + 1) :
          LET g == get_task(file, k)
          IN  g.exc = "none" => g.task[1].id = k

\* ------------------------------------------------------------------------
\* Properties of the Store (StoreSpec)
\* ------------------------------------------------------------------------
\* the file exists and holds an array of task records
WellFormed(f) == f.kind = "array" /\ parse_exc(f) = "none"

\* C7: on every corrupted backing file loadAll() and list() raise nothing
\* and return the empty sequence, and the file afterwards parses and holds
\* no task.
C7_CorruptionNeverRaises ==
    file \in CorruptFiles =>
        LET r == load_tasks(file)
            l == list_tasks(file, NoFilter)
        IN  /\ r.exc = "none" /\ r.tasks = <<>>
            /\ parse_exc(r.file) = "none" /\ Size(r.file) = 0
            /\ l.ret = "list" /\ l.tasks = <<>>
            /\ parse_exc(l.file) = "none" /\ Size(l.file) = 0

\* C8: on a well-formed store, after save(t) of a task with positive id k a
\* reload holds at position k - 1 a task equal to t but for updatedAt, which
\* is the time of the save, and getById(k) returns it when t is not deleted;
\* whether k is within the sequence, one past its end or further.
C8_SaveRoundTrip ==
    WellFormed(file) =>
        \A t \in {x \in SaveInputs : x.id >= 1} : \A now \in {clock, clock + 1} :
            LET r    == save_task(file, t, now)
                back == load_tasks(r.file).tasks
            IN  /\ r.exc = "none"
                /\ Len(back) >= t.id
                /\ back[t.id] = [t EXCEPT !.updatedAt = now]
                /\ (~t.isDeleted =>
                      get_task(r.file, t.id).task = <<[t EXCEPT !.updatedAt = now]>>)

\* C10: initialize(force=false) on an existing file leaves the file as it
\* is; initialize(force=true) on any file, and initialize with either flag on
\* a missing file, leave the empty store; loadAll() on a missing file creates
\* the empty store and returns the empty sequence.
C10_Initialize ==
    /\ file.kind # "absent" => init(file, FALSE) = file
    /\ init(file, TRUE) = EmptyStore
    /\ load_tasks(init(file, TRUE)).tasks = <<>>
    /\ file.kind = "absent" =>
          /\ init(file, FALSE) = EmptyStore
          /\ load_tasks(file).exc = "none"
          /\ load_tasks(file).tasks = <<>>
          /\ load_tasks(file).file = EmptyStore

\* initialize(force=false) has run on a store that holds a task, and the
\* task is still there
C10_Witness ==
    /\ op = "init_noforce"
    /\ WellFormed(file)
    /\ Size(file) >= 1

\* C20: on a file that exists and parses as a sequence of task records,
\* list(), list(s), loadAll(), count() and getById(id), whether it returns a
\* task or fails with TaskNotFound, leave the file as it is, every updatedAt
\* included; so do a remove and an updateStatus that return false.
C20_ReadsArePure ==
    WellFormed(file) =>
        /\ load_tasks(file).file = file
        /\ get_num_of_tasks(file).file = file
        /\ \A s \in AnyStatus \cup {NoFilter} : list_tasks(file, s).file = file
        /\ \A id \in Ids :
              LET g  == get_task(file, id)
                  rm == remove_task(file, id, clock + 1)
                  u  == update_task_status(file, id, "done", clock + 1)
              IN  /\ g.exc \in {"none", "TaskNotFound"}
                  /\ g.file = file
                  /\ rm.ret = "False" => rm.file = file
                  /\ u.ret = "False" => u.file = file

\* getById has failed with TaskNotFound on a store that holds a record, and
\* the store is still well-formed and holds it
C20_Witness ==
    /\ op = "get" /\ res.exc = "TaskNotFound"
    /\ WellFormed(file)
    /\ Size(file) >= 1
    /\ file.items[1].updatedAt.ticks < clock

====
